---------------------------- MODULE Spec2Model ----------------------------
(***************************************************************************)
(* LocalSquares backend: the rotation engine (rotation_service.py) and the *)
(* featured-booking store it reads (featured_service.py, webhooks.py).     *)
(*                                                                         *)
(* Several state machines share this module, each with its own            *)
(* specification; the variables of the other machines stay at their        *)
(* initial value:                                                          *)
(*   SpecShuffle   RotationService._weighted_shuffle, one loop iteration   *)
(*                 per step, on every bounded input list                   *)
(*   Spec          RotationService.get_rotated_pins against a content      *)
(*                 store, one collaborator read per step                   *)
(*   SpecBooking   the featured_bookings table under create_booking,       *)
(*                 confirm_booking, cancel_booking and the Stripe          *)
(*                 payment_intent webhooks                                 *)
(*   SpecWeight    RotationService._calculate_weight on every form of      *)
(*                 stored timestamp                                        *)
(*   SpecReset     two runs of reset_daily_impressions on one pins table   *)
(*   SpecImpression  record_impression and track_impression                *)
(*   SpecInvocations  concurrent get_rotated_pins invocations and the      *)
(*                 requests that write the store between their reads       *)
(*   SpecShuffleFair  SpecShuffle with the loop running to its end         *)
(*   SpecTrial     SubscriptionService.start_trial, calls of several users *)
(*   SpecSubscription  the subscription webhooks, expire_ended_trials and  *)
(*                 a get_rotated_pins call on the joined pins              *)
(***************************************************************************)
EXTENDS Integers, Sequences, FiniteSets, TLC

VARIABLES
    \* ---- _weighted_shuffle ----
    weighted_items,   \* the argument: a sequence of <<pin, weight>>
    items,            \* the working copy the loop pops from
    result,           \* the list the loop appends to
    sh_pc,            \* "call" | "loop" | "done"
    \* ---- the content store read by get_rotated_pins ----
    pins,             \* table pins, joined with subscriptions(status)
    featured_bookings,\* table featured_bookings, in the order a select returns
    impressions,      \* table impressions
    \* ---- one get_rotated_pins call ----
    board_id, session_id, limit,   \* the arguments
    pins_data,        \* pins_response.data
    featured_pin_id,  \* None is NoPin
    seen_pin_ids,
    weighted_pins,    \* the (pin, weight) list handed to the shuffle
    shuffled,         \* the shuffle's result, before the injection
    featured_pin,     \* None is NoPin
    insert_position,  \* the position the pin was inserted at, -1 when none
    ranked,           \* the list returned
    failed_read,      \* the table whose read raised, "none" when none did
    rot_pc,           \* "idle" | "featured" | "seen" | "rank" | "returned" | "raised"
    \* ---- the booking path ----
    booking_calls,    \* per user, the create_booking call under way
    payment_intents,  \* Stripe's payment intents, by id: "open" | "succeeded"
    \* ---- one _calculate_weight call ----
    cw_pin, cw_was_seen,   \* the arguments (now is Now)
    cw_weight,        \* the weight returned, in units of 1/WeightUnit
    cw_pc,            \* "idle" | "call" | "returned" | "raised"
    \* ---- reset_daily_impressions ----
    clock,            \* the wall clock, in hours
    reset_runs,       \* per run: its position, now, response.data, result
    reset_log,        \* per run, the ids of the rows its updates changed
    pins_before,      \* the pins table before any run
    \* ---- concurrent get_rotated_pins invocations ----
    invocations,      \* per invocation: its position, arguments and locals
    \* ---- record_impression and track_impression ----
    imp_call,         \* the function called last, "none" before any call
    imp_pc,           \* "idle" | "returned" | "raised"
    imp_attempts,     \* insert(...).execute() calls made by the call
    imp_result,       \* the value returned: None is "None"
    imp_logged,       \* whether the call printed the failure
    \* ---- the subscription lifecycle ----
    subscriptions,    \* table subscriptions, a row's id is its position
    expire_job,       \* the expire_ended_trials run: position, data, count
    trial_calls,      \* per user, the start_trial call under way
    stripe_customers  \* Stripe's customers, by id: "live" | "deleted"

shuffleVars == <<weighted_items, items, result, sh_pc>>

storeVars == <<pins, featured_bookings, impressions>>

argVars == <<board_id, session_id, limit>>

localVars == <<pins_data, featured_pin_id, seen_pin_ids, weighted_pins,
               shuffled, featured_pin, insert_position>>

rotVars == <<argVars, localVars, ranked, failed_read, rot_pc>>

bookingVars == <<booking_calls, payment_intents>>

weightVars == <<cw_pin, cw_was_seen, cw_weight, cw_pc>>

resetVars == <<clock, reset_runs, reset_log, pins_before>>

invocationVars == <<invocations>>

impressionVars == <<imp_call, imp_pc, imp_attempts, imp_result, imp_logged>>

subscriptionVars == <<subscriptions, expire_job, trial_calls, stripe_customers>>

\* the state of the machines added to the three above
moreVars == <<weightVars, resetVars, invocationVars, impressionVars,
              subscriptionVars>>

vars == <<shuffleVars, storeVars, rotVars, bookingVars, moreVars>>

(***************************************************************************)
(* Bounds of the model.                                                    *)
(***************************************************************************)
\* longest list handed to _weighted_shuffle on its own
MaxItems == 3
\* largest weight of an item handed to _weighted_shuffle on its own
MaxWeight == 2

(***************************************************************************)
(* Sequence helpers.                                                       *)
(***************************************************************************)
Range(s) == {s[i] : i \in 1..Len(s)}

Min(S) == CHOOSE x \in S : \A y \in S : x <= y

\* s[:n] of Python for n >= 0
Take(s, n) == SubSeq(s, 1, IF n < Len(s) THEN n ELSE Len(s))

\* list.insert(i, x) for 0 <= i <= len(list), i counted from 0
InsertAt(s, i, x) == SubSeq(s, 1, i) \o <<x>> \o SubSeq(s, i + 1, Len(s))

\* every ordering of the elements of s (s has no repeated element)
Orderings(s) ==
    {[i \in 1..Len(s) |-> s[f[i]]] :
        f \in {g \in [1..Len(s) -> 1..Len(s)] :
                 \A a, b \in 1..Len(s) : a # b => g[a] # g[b]}}

(***************************************************************************)
(* RotationService._weighted_shuffle                                       *)
(***************************************************************************)
\* the items of a list of (item, weight) pairs: [item for item, _ in items]
ItemsOf(ws) == [i \in 1..Len(ws) |-> ws[i][1]]

\* cumulative after the scan has added the first i weights
RECURSIVE Cumulative(_, _)
Cumulative(ws, i) == IF i = 0 THEN 0 ELSE Cumulative(ws, i - 1) + ws[i][2]

\* total_weight = sum(w for _, w in items)
TotalWeight(ws) == Cumulative(ws, Len(ws))

\* a mutant: the scan compares each weight, not the running sum
SelectIndexNoAccumulate(ws, pick) ==
    LET hits == {i \in 1..Len(ws) : ws[i][2] >= pick}
    IN  IF hits = {} THEN 0 ELSE Min(hits)

\* a mutant: the scan stops at the first cumulative > pick
SelectIndexStrict(ws, pick) ==
    LET hits == {i \in 1..Len(ws) : Cumulative(ws, i) > pick}
    IN  IF hits = {} THEN 0 ELSE Min(hits)

\* the scan: the index (from 1) of the first item with cumulative >= pick,
\* 0 when the scan ends without a hit
SelectIndex(ws, pick) ==
    LET hits == {i \in 1..Len(ws) : Cumulative(ws, i) >= pick}
    IN  IF hits = {} THEN 0 ELSE Min(hits)

\* a mutant: items.pop() without the index removes the last item
PopLast(s, i) == SubSeq(s, 1, Len(s) - 1)

\* items.pop(i), i counted from 1
PopAt(s, i) == SubSeq(s, 1, i - 1) \o SubSeq(s, i + 1, Len(s))

\* a mutant: the degenerate branch breaks without extending the result
FallbackDrops(ws) == {<<>>}

\* random.shuffle(remaining): any ordering of the remaining items
FallbackOrders(ws) == Orderings(ItemsOf(ws))

\* the lists handed to the function: pins 1..n in scan order, any weights
WeightedInputs ==
    UNION {[1..n -> 0..MaxWeight] : n \in 0..MaxItems}

MakeWeighted(w) == [i \in 1..Len(w) |-> <<i, w[i]>>]

ShuffleIdle ==
    /\ weighted_items = <<>>
    /\ items = <<>>
    /\ result = <<>>
    /\ sh_pc = "idle"

\* lines 173-177: the empty input returns [] at once
ShuffleCall ==
    /\ sh_pc = "call"
    /\ IF weighted_items = <<>>
         THEN /\ sh_pc' = "done"
              /\ UNCHANGED <<items, result>>
         ELSE /\ sh_pc' = "loop"
              /\ items' = weighted_items
              /\ result' = <<>>
    /\ UNCHANGED <<weighted_items, storeVars, rotVars, bookingVars, moreVars>>

\* lines 189-199: one iteration with a positive total
ShuffleIterate ==
    /\ sh_pc = "loop"
    /\ items # <<>>
    /\ TotalWeight(items) > 0
    /\ \E pick \in 0..TotalWeight(items) :
          LET i == SelectIndex(items, pick)
          IN  IF i = 0
                THEN UNCHANGED <<items, result>>
                ELSE /\ result' = Append(result, items[i][1])
                     /\ items' = PopAt(items, i)
    /\ UNCHANGED <<weighted_items, sh_pc, storeVars, rotVars, bookingVars, moreVars>>

\* lines 182-187: the degenerate total
ShuffleFallback ==
    /\ sh_pc = "loop"
    /\ items # <<>>
    /\ TotalWeight(items) <= 0
    /\ \E remaining \in FallbackOrders(items) :
          result' = result \o remaining
    /\ sh_pc' = "done"
    /\ UNCHANGED <<weighted_items, items, storeVars, rotVars, bookingVars, moreVars>>

\* line 179 false, line 201
ShuffleReturn ==
    /\ sh_pc = "loop"
    /\ items = <<>>
    /\ sh_pc' = "done"
    /\ UNCHANGED <<weighted_items, items, result, storeVars, rotVars, bookingVars, moreVars>>

NextShuffle ==
    \/ ShuffleCall
    \/ ShuffleIterate
    \/ ShuffleFallback
    \/ ShuffleReturn

\* the picks that decide the scan: random.uniform(0, total) is a real of
\* [0, total], and the scan's hit depends only on which interval between two
\* consecutive cumulative sums holds it; 0 and each cumulative sum (the right
\* end of each interval) stand for all of them
PickPoints(ws) == {0} \cup {Cumulative(ws, i) : i \in 1..Len(ws)}

\* every list _weighted_shuffle can return for ws (lines 173-201 as a whole)
RECURSIVE ShuffleResults(_)
ShuffleResults(ws) ==
    IF ws = <<>> THEN {<<>>}
    ELSE IF TotalWeight(ws) <= 0 THEN FallbackOrders(ws)
    ELSE UNION {LET i == SelectIndex(ws, pick)
                IN  IF i = 0 THEN {}
                    ELSE {<<ws[i][1]>> \o r : r \in ShuffleResults(PopAt(ws, i))} :
                pick \in PickPoints(ws)}

(***************************************************************************)
(* The content store.  Time is counted in hours; a day is 24 of them.      *)
(***************************************************************************)
\* pins of the board the model calls get_rotated_pins for
MaxPins == 3
\* rows of featured_bookings
MaxBookings == 2

NoPin == 0
NoSub == "none"
NoSession == "none"

\* datetime.now(timezone.utc), in hours
Now == 2412
\* now.date(), as a day number
Today == Now \div 24

Board == 1
OtherBoard == 2

\* subscriptions.status as the services write it (subscription_service.py)
SubStatuses == {"active", "past_due", "canceled", "expired"}

PinIds == 1..(MaxPins + 1)

\* a stored timestamp, by the form of the string: an ISO time with a UTC
\* offset ("...+00:00"), one ending in "Z", one without an offset; or None,
\* the empty string, a string that is no ISO time
Time(t) == [kind |-> "time", t |-> t]
TimeZ(t) == [kind |-> "zulu", t |-> t]
Naive(t) == [kind |-> "naive", t |-> t]
Missing == [kind |-> "missing", t |-> 0]
Empty == [kind |-> "empty", t |-> 0]
Unparsable == [kind |-> "unparsable", t |-> 0]

\* the row of pin p: status and the joined subscription status are free for
\* pins 1 and 2, the other pins of the board are active without subscription,
\* and the last pin belongs to another board
PinRow(p, st, sub) ==
    [id |-> p,
     board_id |-> IF p <= MaxPins THEN Board ELSE OtherBoard,
     user_id |-> p,
     status |-> st,
     subscriptions |-> sub,
     impressions_24h |-> IF p % 2 = 1 THEN 0 ELSE 1,
     last_impression_reset |-> Now - 2,
     created_at |-> IF p = 1 THEN Time(Now - 36) ELSE Time(Now - 24 * 30 * p),
     content_updated_at |-> IF p = 2 THEN Time(Now - 48) ELSE Missing]

\* (status, joined subscription status) of a pin: an active pin with or
\* without a subscription in any status, or the pin of an expired trial,
\* which expire_ended_trials paused
PinProfiles ==
    {<<"active", u>> : u \in SubStatuses \cup {NoSub}} \cup {<<"paused", "expired">>}

\* the profiles of the second pin: eligible, skipped, or not active
FewProfiles ==
    {<<"active", NoSub>>, <<"active", "canceled">>, <<"paused", "expired">>}

PinTables ==
    {[p \in PinIds |->
        IF p = 1 THEN PinRow(p, f1[1], f1[2])
        ELSE IF p = 2 THEN PinRow(p, f2[1], f2[2])
        ELSE PinRow(p, "active", NoSub)] :
     f1 \in PinProfiles, f2 \in FewProfiles}

PaymentStatuses == {"pending", "paid", "failed"}

\* a booking of pin 1 or 2 on the board: for today in each payment status,
\* or paid for tomorrow; and a paid booking of today on the other board
BookingRows ==
    [pin_id : {1, 2}, board_id : {Board},
     featured_date : {Today}, payment_status : PaymentStatuses]
    \cup [pin_id : {1, 2}, board_id : {Board},
          featured_date : {Today + 1}, payment_status : {"paid"}]
    \cup {[pin_id |-> MaxPins + 1, board_id |-> OtherBoard,
           featured_date |-> Today, payment_status |-> "paid"]}

BookingTables == UNION {[1..n -> BookingRows] : n \in 0..MaxBookings}

Sessions == {"s1"}

ImpressionRows ==
    {[id |-> 1, pin_id |-> 1, board_id |-> Board, session_id |-> "s1",
      created_at |-> Now - 1],
     [id |-> 2, pin_id |-> 2, board_id |-> Board, session_id |-> "s1",
      created_at |-> Now - 30],
     [id |-> 3, pin_id |-> 3, board_id |-> Board, session_id |-> "s2",
      created_at |-> Now - 1],
     [id |-> 4, pin_id |-> 3, board_id |-> OtherBoard, session_id |-> "s1",
      created_at |-> Now - 1]}

StoreInit ==
    /\ pins \in PinTables
    /\ featured_bookings \in BookingTables
    /\ impressions = ImpressionRows

StoreIdle ==
    /\ pins = <<>>
    /\ featured_bookings = <<>>
    /\ impressions = {}

(***************************************************************************)
(* RotationService._calculate_weight, in units of 1/WeightUnit             *)
(***************************************************************************)
NEW_CARD_DECAY_HOURS == 72
UPDATE_BOOST_DAYS == 7
\* impressions_24h + 1 divides ImpLcm for every count of the model
ImpLcm == 100
\* NEW_CARD_BOOST_MAX = 2.0 = 144/72, UPDATE_BOOST = 1.3 = 13/10,
\* SEEN_PENALTY = 0.5 = 1/2: a weight is a multiple of 1/(ImpLcm * 72 * 10 * 2)
WeightUnit == ImpLcm * NEW_CARD_DECAY_HOURS * 10 * 2

\* _parse_datetime: None for a falsy value (line 205) and for a string
\* fromisoformat rejects (line 212); "Z" is rewritten to "+00:00" (line 209),
\* which gives an aware datetime; a string without offset gives a naive one
ParseDatetime(v) ==
    IF v.kind \in {"missing", "empty"} THEN Missing
    ELSE IF v.kind = "zulu" THEN Time(v.t)
    ELSE IF v.kind \in {"time", "naive"} THEN v
    ELSE Missing

\* lines 145 and 155: now is aware (datetime.now(timezone.utc)), and Python
\* raises TypeError on the difference of an aware and a naive datetime
CalculateWeightRaises(pin, now) ==
    \/ ParseDatetime(pin.created_at).kind = "naive"
    \/ ParseDatetime(pin.content_updated_at).kind = "naive"

\* a mutant: the base weight grows with the impressions
BaseWeightGrows(pin) == ImpLcm * (pin.impressions_24h + 1)

\* lines 139-140: base_weight = 1.0 / (impressions_24h + 1), in units of
\* 1/ImpLcm
BaseWeight(pin) == ImpLcm \div (pin.impressions_24h + 1)

\* a mutant: the age of the pin is counted in whole days
NewCardBoostWholeDays(pin, now) ==
    LET created == ParseDatetime(pin.created_at)
        hours_since_creation == ((now - created.t) \div 24) * 24
    IN  IF created.kind = "time" /\ hours_since_creation < NEW_CARD_DECAY_HOURS
          THEN 2 * NEW_CARD_DECAY_HOURS - hours_since_creation
          ELSE NEW_CARD_DECAY_HOURS

\* lines 143-150: the factor base_weight is multiplied by, in units of
\* 1/NEW_CARD_DECAY_HOURS: NEW_CARD_BOOST_MAX - decay_factor * (MAX - 1)
\* under 72 hours, and no multiplication (the factor 1) otherwise
NewCardBoost(pin, now) ==
    LET created == ParseDatetime(pin.created_at)
        hours_since_creation == now - created.t
    IN  IF created.kind = "time" /\ hours_since_creation < NEW_CARD_DECAY_HOURS
          THEN 2 * NEW_CARD_DECAY_HOURS - hours_since_creation
          ELSE NEW_CARD_DECAY_HOURS

\* a mutant: the update boost still applies on the seventh day
CalculateWeightBoostsSeventhDay(pin, now, was_seen) ==
    LET base == BaseWeight(pin)
        new_boost == NewCardBoost(pin, now)
        updated == ParseDatetime(pin.content_updated_at)
        days_since_update == (now - updated.t) \div 24
        update_boost ==
            IF updated.kind = "time" /\ days_since_update <= UPDATE_BOOST_DAYS
              THEN 13 ELSE 10
        seen_penalty == IF was_seen THEN 1 ELSE 2
    IN  base * new_boost * update_boost * seen_penalty

\* lines 139-163, for a pin whose timestamps do not raise
CalculateWeight(pin, now, was_seen) ==
    LET base == BaseWeight(pin)
        new_boost == NewCardBoost(pin, now)
        updated == ParseDatetime(pin.content_updated_at)
        days_since_update == (now - updated.t) \div 24
        update_boost ==
            IF updated.kind = "time" /\ days_since_update < UPDATE_BOOST_DAYS
              THEN 13 ELSE 10
        seen_penalty == IF was_seen THEN 1 ELSE 2
    IN  base * new_boost * update_boost * seen_penalty

(***************************************************************************)
(* RotationService.get_rotated_pins                                        *)
(***************************************************************************)
FEATURED_POSITIONS == {0, 1, 2, 3}

\* the limits a caller passes: inside 1..100, at its ends, and outside
Limits == {-1, 0, 1, 2, 100, 101}

\* lines 55-61: the active pins of the board
ActivePins(b) ==
    LET Keep(r) == r.board_id = b /\ r.status = "active"
    IN  SelectSeq(pins, Keep)

\* a mutant: the select forgets the payment_status filter
TodayBookedAnyStatus(b) ==
    LET Keep(r) == r.board_id = b /\ r.featured_date = Today
    IN  SelectSeq(featured_bookings, Keep)

\* lines 69-77: the paid bookings of the board for today
TodayFeatured(b) ==
    LET Keep(r) == /\ r.board_id = b
                   /\ r.featured_date = Today
                   /\ r.payment_status = "paid"
    IN  SelectSeq(featured_bookings, Keep)

\* a mutant: the last matching booking is taken
LastFeaturedPinId(rows) ==
    IF rows # <<>> THEN rows[Len(rows)].pin_id ELSE NoPin

\* lines 79-81: the pin of the first matching booking, None without one
FirstFeaturedPinId(rows) ==
    IF rows # <<>> THEN rows[1].pin_id ELSE NoPin

\* a mutant: an impression of any day counts
SeenAnyDay(s, b) ==
    {r.pin_id : r \in {x \in impressions :
        x.session_id = s /\ x.board_id = b}}

\* lines 86-96: the pins the session was shown on the board since midnight
SeenToday(s, b) ==
    {r.pin_id : r \in {x \in impressions :
        x.session_id = s /\ x.board_id = b /\ x.created_at >= Today * 24}}

\* a mutant: only "active" passes the filter
SkipsPastDue(pin) ==
    pin.subscriptions # NoSub /\ pin.subscriptions \notin {"active"}

\* a mutant: only a canceled subscription hides a pin; an expired trial
\* is left to the pause of its pins
SkipsOnlyCanceled(pin) == pin.subscriptions = "canceled"

\* line 105: the subscription filter
SkippedBySubscription(pin) ==
    pin.subscriptions # NoSub /\ pin.subscriptions \notin {"active", "past_due"}

\* lines 99-116: the (pin id, weight) list, the featured pin left out
RECURSIVE WeightedPins(_, _, _, _)
WeightedPins(data, n, fid, seen) ==
    IF n = 0 THEN <<>>
    ELSE LET before == WeightedPins(data, n - 1, fid, seen)
             pin == data[n]
         IN  IF SkippedBySubscription(pin) THEN before
             ELSE IF pin.id = fid THEN before
             ELSE Append(before, <<pin.id, CalculateWeight(pin, Now, pin.id \in seen)>>)

\* a mutant: the booked pin is injected whether or not the loop met it
FeaturedPinUnchecked(data, fid) == fid

\* lines 100-113: the featured pin, when the loop met it
FeaturedPin(data, fid) ==
    IF \E i \in 1..Len(data) : data[i].id = fid /\ ~SkippedBySubscription(data[i])
      THEN fid ELSE NoPin

\* a mutant: the slice keeps one item more
SliceOneMore(s, n) == Take(s, n + 1)

\* line 128, shuffled[:limit] of Python: a negative limit counts from the end
Slice(s, n) == IF n >= 0 THEN Take(s, n) ELSE Take(s, IF Len(s) + n > 0 THEN Len(s) + n ELSE 0)

RotIdle ==
    /\ board_id = Board
    /\ session_id = NoSession
    /\ limit = 50
    /\ pins_data = <<>>
    /\ featured_pin_id = NoPin
    /\ seen_pin_ids = {}
    /\ weighted_pins = <<>>
    /\ shuffled = <<>>
    /\ featured_pin = NoPin
    /\ insert_position = -1
    /\ ranked = <<>>
    /\ failed_read = "none"
    /\ rot_pc = "idle"

\* a mutant: a failed read is swallowed and the call returns no pins
ReadSwallowed(table) ==
    /\ failed_read' = table
    /\ rot_pc' = "returned"
    /\ ranked' = <<>>

\* execute() raises and nothing in get_rotated_pins catches it
ReadRaises(table) ==
    /\ failed_read' = table
    /\ rot_pc' = "raised"
    /\ ranked' = <<>>

\* lines 51-66: the call and its first read
ReadPins ==
    /\ rot_pc = "idle"
    /\ \E s \in Sessions \cup {NoSession}, l \in Limits :
          /\ board_id' = Board
          /\ session_id' = s
          /\ limit' = l
    /\ \/ /\ ReadRaises("pins")
          /\ UNCHANGED localVars
       \/ /\ pins_data' = ActivePins(Board)
          /\ IF ActivePins(Board) = <<>>
               THEN rot_pc' = "returned" /\ ranked' = <<>>
               ELSE rot_pc' = "featured" /\ UNCHANGED ranked
          /\ UNCHANGED <<featured_pin_id, seen_pin_ids, weighted_pins,
                         shuffled, featured_pin, insert_position, failed_read>>
    /\ UNCHANGED <<moreVars, shuffleVars, bookingVars, storeVars>>

\* lines 68-81
ReadFeatured ==
    /\ rot_pc = "featured"
    /\ \/ /\ ReadRaises("featured_bookings")
          /\ UNCHANGED localVars
       \/ /\ featured_pin_id' = FirstFeaturedPinId(TodayFeatured(board_id))
          /\ rot_pc' = "seen"
          /\ UNCHANGED <<pins_data, seen_pin_ids, weighted_pins, shuffled,
                         featured_pin, insert_position, ranked, failed_read>>
    /\ UNCHANGED <<moreVars, shuffleVars, bookingVars, storeVars, argVars>>

\* lines 83-96: the read is made only for a call with a session
ReadSeen ==
    /\ rot_pc = "seen"
    /\ \/ /\ session_id # NoSession
          /\ ReadRaises("impressions")
          /\ UNCHANGED localVars
       \/ /\ seen_pin_ids' =
                IF session_id # NoSession
                  THEN SeenToday(session_id, board_id) ELSE {}
          /\ rot_pc' = "rank"
          /\ UNCHANGED <<pins_data, featured_pin_id, weighted_pins, shuffled,
                         featured_pin, insert_position, ranked, failed_read>>
    /\ UNCHANGED <<moreVars, shuffleVars, bookingVars, storeVars, argVars>>

\* lines 98-128: weights, shuffle, injection, truncation
Rank ==
    /\ rot_pc = "rank"
    /\ LET wp == WeightedPins(pins_data, Len(pins_data), featured_pin_id, seen_pin_ids)
           fp == FeaturedPin(pins_data, featured_pin_id)
       IN  /\ weighted_pins' = wp
           /\ featured_pin' = fp
           /\ \E sh \in ShuffleResults(wp) :
                 /\ shuffled' = sh
                 /\ IF fp # NoPin
                      THEN \E choice \in FEATURED_POSITIONS :
                              LET at == IF choice < Len(sh) THEN choice ELSE Len(sh)
                              IN  /\ insert_position' = at
                                  /\ ranked' = Slice(InsertAt(sh, at, fp), limit)
                      ELSE /\ insert_position' = -1
                           /\ ranked' = Slice(sh, limit)
    /\ rot_pc' = "returned"
    /\ UNCHANGED <<moreVars, shuffleVars, bookingVars, storeVars, argVars, pins_data, featured_pin_id,
                   seen_pin_ids, failed_read>>

BookingIdle ==
    /\ booking_calls = <<>>
    /\ payment_intents = <<>>

WeightIdle ==
    /\ cw_pin = <<>>
    /\ cw_was_seen = FALSE
    /\ cw_weight = 0
    /\ cw_pc = "idle"

ResetIdle ==
    /\ clock = Now
    /\ reset_runs = <<>>
    /\ reset_log = <<>>
    /\ pins_before = <<>>

InvocationsIdle ==
    /\ invocations = <<>>

ImpressionIdle ==
    /\ imp_call = "none"
    /\ imp_pc = "idle"
    /\ imp_attempts = 0
    /\ imp_result = "None"
    /\ imp_logged = FALSE

NoJob == [pc |-> "idle", data |-> <<>>, i |-> 0, expired_count |-> 0]

SubscriptionIdle ==
    /\ subscriptions = <<>>
    /\ expire_job = NoJob
    /\ trial_calls = <<>>
    /\ stripe_customers = <<>>

Init ==
    /\ ShuffleIdle /\ StoreInit /\ RotIdle /\ BookingIdle
    /\ WeightIdle /\ ResetIdle /\ InvocationsIdle /\ ImpressionIdle /\ SubscriptionIdle

Next ==
    \/ ReadPins
    \/ ReadFeatured
    \/ ReadSeen
    \/ Rank

Spec == Init /\ [][Next]_vars

(***************************************************************************)
(* _weighted_shuffle on its own                                            *)
(***************************************************************************)
InitShuffle ==
    /\ weighted_items \in {MakeWeighted(w) : w \in WeightedInputs}
    /\ items = <<>>
    /\ result = <<>>
    /\ sh_pc = "call"
    /\ StoreIdle
    /\ RotIdle
    /\ BookingIdle
    /\ WeightIdle /\ ResetIdle /\ InvocationsIdle /\ ImpressionIdle /\ SubscriptionIdle

SpecShuffle == InitShuffle /\ [][NextShuffle]_vars

\* the loop runs to its end on the thread of the call: an iteration that
\* can be taken is taken
SpecShuffleFair == SpecShuffle /\ WF_vars(NextShuffle)

(***************************************************************************)
(* The booking path: FeaturedService and the payment_intent webhooks.      *)
(* A row of featured_bookings carries here the columns this path writes:   *)
(* id, pin_id, board_id, user_id, featured_date, stripe_payment_intent_id, *)
(* payment_status.  A request the service rejects changes nothing and is   *)
(* no step.                                                                *)
(***************************************************************************)
\* bookings ever created in a behaviour
MaxCreated == 3

MAX_ADVANCE_DAYS == 30

\* the users who book, each the owner of the pin with the same number
BookUsers == {1, 2}

\* the dates a request names: today (refused), the next two days, and a
\* day beyond the advance window (refused)
BookDates == {Today, Today + 1, Today + 2, Today + MAX_ADVANCE_DAYS + 1}

NoCall == [pc |-> "idle", pin_id |-> NoPin, board_id |-> Board, featured_date |-> Today]

\* subscription_service.py lines 269-274, on the users' subscription rows:
\* both users hold a subscription that counts as active
UserSubStatus(u) == IF u = 1 THEN "active" ELSE "past_due"

IsSubscriptionActive(u) == UserSubStatus(u) \in {"active", "past_due"}

\* featured_service.py lines 75-96
IsDateAvailable(b, d) ==
    /\ d > Today
    /\ d <= Today + MAX_ADVANCE_DAYS
    /\ ~\E i \in 1..Len(featured_bookings) :
          /\ featured_bookings[i].board_id = b
          /\ featured_bookings[i].featured_date = d
          /\ featured_bookings[i].payment_status \in {"pending", "paid"}

\* update({"payment_status": st}) on the rows at the positions in hit
UpdateStatus(tbl, hit, st) ==
    [i \in 1..Len(tbl) |->
        IF i \in hit THEN [tbl[i] EXCEPT !.payment_status = st] ELSE tbl[i]]

\* .eq("id", id)
RowsWithId(id) ==
    {i \in 1..Len(featured_bookings) : featured_bookings[i].id = id}

\* .eq("stripe_payment_intent_id", pi)
RowsWithIntent(pi) ==
    {i \in 1..Len(featured_bookings) :
        featured_bookings[i].stripe_payment_intent_id = pi}

InitBooking ==
    /\ pins = [p \in PinIds |-> PinRow(p, "active", NoSub)]
    /\ featured_bookings = <<>>
    /\ impressions = {}
    /\ booking_calls = [u \in BookUsers |-> NoCall]
    /\ payment_intents = <<>>
    /\ ShuffleIdle
    /\ RotIdle
    /\ WeightIdle /\ ResetIdle /\ InvocationsIdle /\ ImpressionIdle /\ SubscriptionIdle

\* create_booking lines 113-141: the checks, up to the Stripe call
CreateBookingCheck(u, p, b, d) ==
    /\ booking_calls[u].pc = "idle"
    /\ IsSubscriptionActive(u)
    /\ IsDateAvailable(b, d)
    /\ p \in PinIds
    /\ pins[p].user_id = u
    /\ pins[p].board_id = b
    /\ booking_calls' = [booking_calls EXCEPT ![u] =
          [pc |-> "charging", pin_id |-> p, board_id |-> b, featured_date |-> d]]
    /\ UNCHANGED <<moreVars, shuffleVars, storeVars, rotVars, payment_intents>>

\* create_booking lines 143-167: the payment intent and the pending row
CreateBookingInsert(u) ==
    /\ booking_calls[u].pc = "charging"
    /\ Len(payment_intents) < MaxCreated
    /\ LET id == Len(payment_intents) + 1
       IN  /\ payment_intents' = Append(payment_intents, "open")
           /\ featured_bookings' = Append(featured_bookings,
                 [id |-> id,
                  pin_id |-> booking_calls[u].pin_id,
                  board_id |-> booking_calls[u].board_id,
                  user_id |-> u,
                  featured_date |-> booking_calls[u].featured_date,
                  stripe_payment_intent_id |-> id,
                  payment_status |-> "pending"])
    /\ booking_calls' = [booking_calls EXCEPT ![u] = NoCall]
    /\ UNCHANGED <<moreVars, shuffleVars, rotVars, pins, impressions>>

\* featured.py lines 105-121 and featured_service.py lines 169-175: any
\* authenticated user, any booking id
ConfirmBooking(id) ==
    /\ RowsWithId(id) # {}
    /\ featured_bookings' = UpdateStatus(featured_bookings, RowsWithId(id), "paid")
    /\ UNCHANGED <<moreVars, shuffleVars, rotVars, pins, impressions, bookingVars>>

\* featured_service.py lines 198-231
CancelBooking(id, u) ==
    /\ \E i \in 1..Len(featured_bookings) :
          /\ featured_bookings[i].id = id
          /\ featured_bookings[i].user_id = u
          /\ featured_bookings[i].featured_date > Today
    /\ LET Keep(r) == r.id # id
       IN  featured_bookings' = SelectSeq(featured_bookings, Keep)
    /\ UNCHANGED <<moreVars, shuffleVars, rotVars, pins, impressions, bookingVars>>

\* webhooks.py lines 76-94: Stripe reports the intent paid
PaymentIntentSucceeded(pi) ==
    /\ pi \in 1..Len(payment_intents)
    /\ payment_intents[pi] = "open"
    /\ payment_intents' = [payment_intents EXCEPT ![pi] = "succeeded"]
    /\ featured_bookings' =
          UpdateStatus(featured_bookings, RowsWithIntent(pi), "paid")
    /\ UNCHANGED <<moreVars, shuffleVars, rotVars, pins, impressions, booking_calls>>

\* webhooks.py lines 96-110: a payment attempt failed; the intent stays
\* open for another attempt
PaymentIntentFailed(pi) ==
    /\ pi \in 1..Len(payment_intents)
    /\ payment_intents[pi] = "open"
    /\ featured_bookings' =
          UpdateStatus(featured_bookings, RowsWithIntent(pi), "failed")
    /\ UNCHANGED <<moreVars, shuffleVars, rotVars, pins, impressions, bookingVars>>

NextBooking ==
    \/ \E u \in BookUsers, p \in PinIds, b \in {Board, OtherBoard}, d \in BookDates :
          CreateBookingCheck(u, p, b, d)
    \/ \E u \in BookUsers : CreateBookingInsert(u)
    \/ \E id \in 1..MaxCreated : ConfirmBooking(id)
    \/ \E id \in 1..MaxCreated, u \in BookUsers : CancelBooking(id, u)
    \/ \E pi \in 1..MaxCreated : PaymentIntentSucceeded(pi)
    \/ \E pi \in 1..MaxCreated : PaymentIntentFailed(pi)

SpecBooking == InitBooking /\ [][NextBooking]_vars

(***************************************************************************)
(* _calculate_weight on its own, for every form of stored timestamp        *)
(***************************************************************************)
\* the counts the weight is computed for (each count + 1 divides ImpLcm)
WeightImpressions == {0, 1, 9, 99}

\* created_at: absent, empty, no ISO time, without offset, times from this
\* hour back to a year ago, on both sides of the 72 hour decay, and a time
\* an hour ahead of the server's clock
CreatedValues ==
    {Missing, Empty, Unparsable, Naive(Now - 36), TimeZ(Now - 36),
     Time(Now), Time(Now - 36), Time(Now - NEW_CARD_DECAY_HOURS + 1),
     Time(Now - NEW_CARD_DECAY_HOURS), Time(Now - 24 * 365), Time(Now + 1)}

\* content_updated_at: the same forms, on both sides of the seventh day
UpdatedValues ==
    {Missing, Empty, Unparsable, Naive(Now - 48), TimeZ(Now - 48),
     Time(Now), Time(Now - 24 * UPDATE_BOOST_DAYS + 1),
     Time(Now - 24 * UPDATE_BOOST_DAYS), Time(Now - 24 * 365)}

WeightPins ==
    {[PinRow(1, "active", NoSub) EXCEPT
         !.impressions_24h = n, !.created_at = c, !.content_updated_at = u] :
     n \in WeightImpressions, c \in CreatedValues, u \in UpdatedValues}

InitWeight ==
    /\ cw_pin \in WeightPins
    /\ cw_was_seen \in BOOLEAN
    /\ cw_weight = 0
    /\ cw_pc = "call"
    /\ ShuffleIdle /\ StoreIdle /\ RotIdle /\ BookingIdle
    /\ ResetIdle /\ InvocationsIdle /\ ImpressionIdle /\ SubscriptionIdle

\* lines 130-163: the call returns its weight, or the subtraction raises
CalculateWeightCall ==
    /\ cw_pc = "call"
    /\ IF CalculateWeightRaises(cw_pin, Now)
         THEN /\ cw_pc' = "raised"
              /\ UNCHANGED cw_weight
         ELSE /\ cw_pc' = "returned"
              /\ cw_weight' = CalculateWeight(cw_pin, Now, cw_was_seen)
    /\ UNCHANGED <<cw_pin, cw_was_seen, shuffleVars, storeVars, rotVars,
                   bookingVars, subscriptionVars, resetVars, invocationVars, impressionVars>>

NextWeight == CalculateWeightCall

SpecWeight == InitWeight /\ [][NextWeight]_vars

(***************************************************************************)
(* RotationService.reset_daily_impressions: two runs of the scheduled job  *)
(* on one pins table, one store request per step, while the clock moves    *)
(* and other requests delete pins.                                         *)
(***************************************************************************)
\* pins in the table the job runs on
MaxResetPins == 2
\* hours the clock advances while the runs are under way
MaxTicks == 1
\* pins other requests delete while the runs are under way
MaxDeleted == 1

\* timedelta(hours=24)
RESET_AFTER_HOURS == 24

ResetRuns == {1, 2}

\* last_impression_reset before the runs: long overdue, exactly 24 hours
\* before the first possible run, and recent
LastResets == {Now - 2 * RESET_AFTER_HOURS, Now - RESET_AFTER_HOURS, Now - 2}

\* the row of pin p in the table the job runs on: a positive counter
ResetPinRow(p, last) ==
    [PinRow(p, "active", NoSub) EXCEPT
        !.impressions_24h = p + 1, !.last_impression_reset = last]

ResetPinTables ==
    {[p \in 1..MaxResetPins |-> ResetPinRow(p, f[p])] :
        f \in [1..MaxResetPins -> LastResets]}

\* a run not yet started
NoRun ==
    [pc |-> "idle", now |-> 0, data |-> <<>>, i |-> 0, result |-> -1,
     failed |-> "none", after |-> {}]

InitReset ==
    /\ pins \in ResetPinTables
    /\ featured_bookings = <<>>
    /\ impressions = {}
    /\ clock = Now
    /\ reset_runs = [r \in ResetRuns |-> NoRun]
    /\ reset_log = [r \in ResetRuns |-> {}]
    /\ pins_before = pins
    /\ ShuffleIdle /\ RotIdle /\ BookingIdle
    /\ WeightIdle /\ InvocationsIdle /\ ImpressionIdle /\ SubscriptionIdle

\* a mutant: the filter is lte, a pin reset exactly 24 hours ago is selected
OverdueIdsInclusive(tbl, cutoff) ==
    LET Keep(r) == r.last_impression_reset <= cutoff
        rows == SelectSeq(tbl, Keep)
    IN  [i \in 1..Len(rows) |-> rows[i].id]

\* lines 244-246: select("id").lt("last_impression_reset", cutoff)
OverdueIds(tbl, cutoff) ==
    LET Keep(r) == r.last_impression_reset < cutoff
        rows == SelectSeq(tbl, Keep)
    IN  [i \in 1..Len(rows) |-> rows[i].id]

\* a mutant: the update zeroes the counter and forgets the reset time
ResetRowNoStamp(tbl, id, now) ==
    [i \in 1..Len(tbl) |->
        IF tbl[i].id = id
          THEN [tbl[i] EXCEPT !.impressions_24h = 0]
          ELSE tbl[i]]

\* a mutant: the update has no .eq("id", ...) and changes every row
ResetRowEveryPin(tbl, id, now) ==
    [i \in 1..Len(tbl) |->
        [tbl[i] EXCEPT !.impressions_24h = 0, !.last_impression_reset = now]]

\* lines 253-256: update({...}).eq("id", pin["id"])
ResetRow(tbl, id, now) ==
    [i \in 1..Len(tbl) |->
        IF tbl[i].id = id
          THEN [tbl[i] EXCEPT !.impressions_24h = 0, !.last_impression_reset = now]
          ELSE tbl[i]]

\* the runs that had ended when a run starts
EndedRuns == {r \in ResetRuns : reset_runs[r].pc \in {"returned", "raised"}}

\* lines 240-249: now, the select, and the early return; the select's
\* execute() may raise
ResetStart(r) ==
    /\ reset_runs[r].pc = "idle"
    /\ \/ reset_runs' = [reset_runs EXCEPT ![r] =
             [NoRun EXCEPT !.pc = "raised", !.now = clock, !.failed = "select",
                           !.after = EndedRuns]]
       \/ LET data == OverdueIds(pins, clock - RESET_AFTER_HOURS)
          IN  reset_runs' = [reset_runs EXCEPT ![r] =
                [pc |-> IF data = <<>> THEN "returned" ELSE "loop",
                 now |-> clock,
                 data |-> data,
                 i |-> IF data = <<>> THEN 0 ELSE 1,
                 result |-> IF data = <<>> THEN 0 ELSE -1,
                 failed |-> "none",
                 after |-> EndedRuns]]
    /\ UNCHANGED <<clock, reset_log, pins_before, storeVars, shuffleVars, rotVars,
                   bookingVars, subscriptionVars, weightVars, invocationVars, impressionVars>>

\* lines 252-258: one iteration of the loop, and the return after the last;
\* nothing catches an execute() that raises
ResetUpdate(r) ==
    /\ reset_runs[r].pc = "loop"
    /\ LET run == reset_runs[r]
           id == run.data[run.i]
       IN  \/ /\ reset_runs' = [reset_runs EXCEPT ![r] =
                     [run EXCEPT !.pc = "raised", !.failed = "update"]]
              /\ UNCHANGED <<pins, reset_log>>
           \/ /\ pins' = ResetRow(pins, id, run.now)
              /\ reset_log' = [reset_log EXCEPT ![r] =
                     IF \E k \in 1..Len(pins) : pins[k].id = id
                       THEN @ \cup {id} ELSE @]
              /\ reset_runs' = [reset_runs EXCEPT ![r] =
                     IF run.i < Len(run.data)
                       THEN [run EXCEPT !.i = run.i + 1]
                       ELSE [run EXCEPT !.i = run.i + 1, !.pc = "returned",
                                        !.result = Len(run.data)]]
    /\ UNCHANGED <<clock, pins_before, featured_bookings, impressions, shuffleVars,
                   rotVars, bookingVars, subscriptionVars, weightVars, invocationVars, impressionVars>>

\* an hour passes
Tick ==
    /\ clock < Now + MaxTicks
    /\ clock' = clock + 1
    /\ UNCHANGED <<reset_runs, reset_log, pins_before, storeVars, shuffleVars,
                   rotVars, bookingVars, subscriptionVars, weightVars, invocationVars, impressionVars>>

\* pin_service.py lines 95-103: another request deletes a pin
DeletePin(p) ==
    /\ Len(pins_before) - Len(pins) < MaxDeleted
    /\ \E k \in 1..Len(pins) : pins[k].id = p
    /\ LET Keep(row) == row.id # p
       IN  pins' = SelectSeq(pins, Keep)
    /\ UNCHANGED <<clock, reset_runs, reset_log, pins_before, featured_bookings,
                   impressions, shuffleVars, rotVars, bookingVars, subscriptionVars, weightVars,
                   invocationVars, impressionVars>>

NextReset ==
    \/ \E r \in ResetRuns : ResetStart(r)
    \/ \E r \in ResetRuns : ResetUpdate(r)
    \/ Tick
    \/ \E p \in 1..MaxResetPins : DeletePin(p)

SpecReset == InitReset /\ [][NextReset]_vars

(***************************************************************************)
(* Recording an impression: RotationService.record_impression and          *)
(* AnalyticsService.track_impression, each one insert into impressions.    *)
(* The variables hold the outcome of the latest call.                      *)
(***************************************************************************)
\* rows the calls of a behaviour add to impressions
MaxImpressions == 3

\* the row the insert adds: the store gives it an id and created_at
NewImpression(p, b, s) ==
    [id |-> Cardinality(impressions) + 1, pin_id |-> p, board_id |-> b,
     session_id |-> s, created_at |-> clock]

InitImpression ==
    /\ pins = [p \in PinIds |-> PinRow(p, "active", NoSub)]
    /\ featured_bookings = <<>>
    /\ impressions = {}
    /\ ImpressionIdle
    /\ ShuffleIdle /\ RotIdle /\ BookingIdle
    /\ WeightIdle /\ ResetIdle /\ InvocationsIdle /\ SubscriptionIdle

\* rotation_service.py lines 215-232: one insert; nothing catches an
\* execute() that raises, nothing is printed, None is returned
RecordImpression(p, b, s) ==
    /\ Cardinality(impressions) < MaxImpressions
    /\ imp_call' = "record_impression"
    /\ imp_attempts' = 1
    /\ imp_result' = "None"
    /\ imp_logged' = FALSE
    /\ \/ /\ impressions' = impressions \cup {NewImpression(p, b, s)}
          /\ imp_pc' = "returned"
       \/ /\ UNCHANGED impressions
          /\ imp_pc' = "raised"
    /\ UNCHANGED <<pins, featured_bookings, shuffleVars, rotVars, bookingVars, subscriptionVars,
                   weightVars, resetVars, invocationVars>>

\* analytics_service.py lines 12-41: one insert inside try; the handler
\* prints the exception and returns False
TrackImpression(p, b, s) ==
    /\ Cardinality(impressions) < MaxImpressions
    /\ imp_call' = "track_impression"
    /\ imp_attempts' = 1
    /\ imp_pc' = "returned"
    /\ \/ /\ impressions' = impressions \cup {NewImpression(p, b, s)}
          /\ imp_result' = "True"
          /\ imp_logged' = FALSE
       \/ /\ UNCHANGED impressions
          /\ imp_result' = "False"
          /\ imp_logged' = TRUE
    /\ UNCHANGED <<pins, featured_bookings, shuffleVars, rotVars, bookingVars, subscriptionVars,
                   weightVars, resetVars, invocationVars>>

NextImpression ==
    \/ \E p \in {1, 2}, s \in Sessions \cup {NoSession} : RecordImpression(p, Board, s)
    \/ \E p \in {1, 2}, s \in Sessions \cup {NoSession} : TrackImpression(p, Board, s)

SpecImpression == InitImpression /\ [][NextImpression]_vars

(***************************************************************************)
(* Concurrent get_rotated_pins invocations: every request builds its own   *)
(* RotationService (get_rotation_service), so an invocation owns its       *)
(* locals and shares only the store.  One store request is one step; the   *)
(* ranking after the last read touches no shared state and belongs to the  *)
(* step of that read.  Other requests delete pins, confirm bookings and    *)
(* record impressions in between.                                          *)
(***************************************************************************)
InvocationIds == {1, 2}

\* the (board, session, limit) the concurrent callers pass
InvocationArgs ==
    {<<Board, "s1", 1>>, <<Board, "s1", 100>>, <<Board, NoSession, 100>>,
     <<OtherBoard, NoSession, 100>>}

NoInvocation ==
    [pc |-> "idle", board_id |-> Board, session_id |-> NoSession, limit |-> 50,
     pins_data |-> <<>>, featured_pin_id |-> NoPin, seen_pin_ids |-> {},
     ranked |-> <<>>, failed_read |-> "none"]

\* two bookings of today on the board, not yet paid
PendingBooking(id) ==
    [id |-> id, pin_id |-> id, board_id |-> Board, user_id |-> id,
     featured_date |-> Today, stripe_payment_intent_id |-> id,
     payment_status |-> "pending"]

\* the pins the invocations run on: two of the board, one of the other
InvocationPins ==
    <<PinRow(1, "active", NoSub), PinRow(2, "active", NoSub),
      PinRow(MaxPins + 1, "active", NoSub)>>

InitInvocations ==
    /\ pins = InvocationPins
    /\ featured_bookings = <<PendingBooking(1), PendingBooking(2)>>
    /\ impressions = {}
    /\ invocations = [c \in InvocationIds |-> NoInvocation]
    /\ clock = Now
    /\ reset_runs = <<>>
    /\ reset_log = <<>>
    /\ pins_before = pins
    /\ ShuffleIdle /\ RotIdle /\ BookingIdle /\ WeightIdle /\ ImpressionIdle /\ SubscriptionIdle

\* a mutant: the invocation records an impression of its own
StoreImpressionRecorded ==
    /\ impressions' = impressions \cup {NewImpression(1, Board, NoSession)}
    /\ UNCHANGED <<pins, featured_bookings>>

\* lines 55-96: the three store requests are selects; the method holds no
\* insert, update or delete
StoreUntouched == UNCHANGED storeVars

\* lines 98-128: every list the call can return from its three reads
RankedLists(data, fid, seen, l) ==
    LET wp == WeightedPins(data, Len(data), fid, seen)
        fp == FeaturedPin(data, fid)
    IN  UNION {IF fp # NoPin
                 THEN {Slice(InsertAt(sh, IF choice < Len(sh) THEN choice ELSE Len(sh), fp), l) :
                          choice \in FEATURED_POSITIONS}
                 ELSE {Slice(sh, l)} :
               sh \in ShuffleResults(wp)}

\* lines 51-66, by invocation c
InvocationReadPins(c) ==
    /\ invocations[c].pc = "idle"
    /\ \E a \in InvocationArgs :
          LET call == [NoInvocation EXCEPT
                          !.board_id = a[1], !.session_id = a[2], !.limit = a[3]]
          IN  \/ invocations' = [invocations EXCEPT ![c] =
                    [call EXCEPT !.pc = "raised", !.failed_read = "pins"]]
              \/ invocations' = [invocations EXCEPT ![c] =
                    [call EXCEPT
                        !.pins_data = ActivePins(a[1]),
                        !.pc = IF ActivePins(a[1]) = <<>> THEN "returned" ELSE "featured"]]
    /\ StoreUntouched
    /\ UNCHANGED <<shuffleVars, rotVars, bookingVars, subscriptionVars, weightVars, resetVars,
                   impressionVars>>

\* lines 68-81, by invocation c
InvocationReadFeatured(c) ==
    /\ invocations[c].pc = "featured"
    /\ \/ invocations' = [invocations EXCEPT ![c] =
             [@ EXCEPT !.pc = "raised", !.failed_read = "featured_bookings"]]
       \/ invocations' = [invocations EXCEPT ![c] =
             [@ EXCEPT
                 !.featured_pin_id =
                     FirstFeaturedPinId(TodayFeatured(invocations[c].board_id)),
                 !.pc = "seen"]]
    /\ StoreUntouched
    /\ UNCHANGED <<shuffleVars, rotVars, bookingVars, subscriptionVars, weightVars, resetVars,
                   impressionVars>>

\* lines 83-128, by invocation c: the last read and the ranking
InvocationReadSeen(c) ==
    /\ invocations[c].pc = "seen"
    /\ LET call == invocations[c]
           seen == IF call.session_id # NoSession
                     THEN SeenToday(call.session_id, call.board_id) ELSE {}
       IN  \/ /\ call.session_id # NoSession
              /\ invocations' = [invocations EXCEPT ![c] =
                    [call EXCEPT !.pc = "raised", !.failed_read = "impressions"]]
           \/ \E list \in RankedLists(call.pins_data, call.featured_pin_id,
                                      seen, call.limit) :
                 invocations' = [invocations EXCEPT ![c] =
                    [call EXCEPT !.seen_pin_ids = seen, !.ranked = list,
                                 !.pc = "returned"]]
    /\ StoreUntouched
    /\ UNCHANGED <<shuffleVars, rotVars, bookingVars, subscriptionVars, weightVars, resetVars,
                   impressionVars>>

NextInvocations ==
    \/ \E c \in InvocationIds : InvocationReadPins(c)
    \/ \E c \in InvocationIds : InvocationReadFeatured(c)
    \/ \E c \in InvocationIds : InvocationReadSeen(c)
    \/ \E p \in {1, 2} : DeletePin(p)
    \/ \E id \in {1, 2} : ConfirmBooking(id)
    \/ RecordImpression(1, Board, "s1")

SpecInvocations == InitInvocations /\ [][NextInvocations]_vars

(***************************************************************************)
(* SubscriptionService.start_trial: calls of several users, interleaved    *)
(***************************************************************************)
TRIAL_DAYS == 7

\* a NULL column of a subscriptions row
Null == 0

\* the users who call start_trial: the last one already has a subscription
TrialUsers == {1, 2, 3}

\* a subscriptions row; the customer and the subscription Stripe created
\* for it carry the same number. current_period_start, current_period_end,
\* cancel_at_period_end and stripe_payment_method_id are written but read by
\* nothing modelled here, and are left out
SubRow(id, u, plan, st, te, cus) ==
    [id |-> id, user_id |-> u, plan |-> plan, status |-> st,
     trial_end |-> te, stripe_customer_id |-> cus,
     stripe_subscription_id |-> cus, canceled_at |-> Null]

NoTrial == [pc |-> "idle", customer |-> Null, error |-> "none"]

\* get_by_user_id, lines 26-31
GetByUserId(u) ==
    {i \in 1..Len(subscriptions) : subscriptions[i].user_id = u}

InitTrial ==
    /\ subscriptions = <<SubRow(1, 3, "monthly", "active", Null, 1)>>
    /\ stripe_customers = <<"live">>
    /\ trial_calls = [u \in TrialUsers |-> NoTrial]
    /\ expire_job = NoJob
    /\ ShuffleIdle /\ StoreIdle /\ RotIdle /\ BookingIdle
    /\ WeightIdle /\ ResetIdle /\ InvocationsIdle /\ ImpressionIdle

\* what a start_trial step leaves alone
TrialFrame ==
    UNCHANGED <<expire_job, shuffleVars, storeVars, rotVars,
                bookingVars, weightVars, resetVars, invocationVars,
                impressionVars>>

\* the call of user u ends raising, with the customer c it created (Null
\* when it created none)
TrialRaised(u, c, why) ==
    trial_calls' = [trial_calls EXCEPT ![u] =
                      [pc |-> "raised", customer |-> c, error |-> why]]

\* line 117: stripe.Customer.delete(customer.id)
CustomerDeleted(c) ==
    stripe_customers' = [stripe_customers EXCEPT ![c] = "deleted"]

\* lines 64-67: the check for an existing subscription
TrialCheck(u) ==
    /\ trial_calls[u].pc = "idle"
    /\ IF GetByUserId(u) # {}
         THEN TrialRaised(u, Null, "exists")
         ELSE trial_calls' = [trial_calls EXCEPT ![u].pc = "customer"]
    /\ UNCHANGED <<subscriptions, stripe_customers>>
    /\ TrialFrame

\* lines 69-75: stripe.Customer.create, outside the try block
TrialCreateCustomer(u) ==
    /\ trial_calls[u].pc = "customer"
    /\ \/ /\ stripe_customers' = Append(stripe_customers, "live")
          /\ trial_calls' = [trial_calls EXCEPT ![u] =
                [pc |-> "payment", customer |-> Len(stripe_customers) + 1,
                 error |-> "none"]]
       \/ /\ TrialRaised(u, Null, "StripeError")
          /\ UNCHANGED stripe_customers
    /\ UNCHANGED subscriptions
    /\ TrialFrame

\* lines 78-85 and 115-118: the $1 payment succeeds; or Stripe returns an
\* intent in another status (requires_action, processing, ...) and line 85
\* raises ValueError, which the except clause for StripeError does not
\* catch; or Stripe raises and the customer is deleted
TrialPayment(u) ==
    /\ trial_calls[u].pc = "payment"
    /\ \/ /\ trial_calls' = [trial_calls EXCEPT ![u].pc = "subscribe"]
          /\ UNCHANGED stripe_customers
       \/ /\ TrialRaised(u, trial_calls[u].customer, "payment status")
          /\ UNCHANGED stripe_customers
       \/ /\ TrialRaised(u, trial_calls[u].customer, "Stripe error")
          /\ CustomerDeleted(trial_calls[u].customer)
    /\ UNCHANGED subscriptions
    /\ TrialFrame

\* lines 88-91 and 115-118: the subscription with its trial period
TrialSubscribe(u) ==
    /\ trial_calls[u].pc = "subscribe"
    /\ \/ /\ trial_calls' = [trial_calls EXCEPT ![u].pc = "insert"]
          /\ UNCHANGED stripe_customers
       \/ /\ TrialRaised(u, trial_calls[u].customer, "Stripe error")
          /\ CustomerDeleted(trial_calls[u].customer)
    /\ UNCHANGED subscriptions
    /\ TrialFrame

\* lines 94-113: the row is stored and returned; or execute() raises, which
\* is no StripeError either
TrialInsert(u) ==
    /\ trial_calls[u].pc = "insert"
    /\ \/ /\ subscriptions' = Append(subscriptions,
                SubRow(Len(subscriptions) + 1, u, "trial", "active",
                       Now + 24 * TRIAL_DAYS, trial_calls[u].customer))
          /\ trial_calls' = [trial_calls EXCEPT ![u].pc = "returned"]
       \/ /\ TrialRaised(u, trial_calls[u].customer, "store")
          /\ UNCHANGED subscriptions
    /\ UNCHANGED stripe_customers
    /\ TrialFrame

NextTrial ==
    \/ \E u \in TrialUsers : TrialCheck(u)
    \/ \E u \in TrialUsers : TrialCreateCustomer(u)
    \/ \E u \in TrialUsers : TrialPayment(u)
    \/ \E u \in TrialUsers : TrialSubscribe(u)
    \/ \E u \in TrialUsers : TrialInsert(u)

SpecTrial == InitTrial /\ [][NextTrial]_vars

(***************************************************************************)
(* The subscription lifecycle after the trial started: Stripe's webhooks,  *)
(* the expire_ended_trials job, and a get_rotated_pins call beside them    *)
(***************************************************************************)
\* the ids Stripe's events name: that of the first row, and an unknown one
StripeIds == {1, 3}

\* stripe_subscription.status as Stripe sends it; "paused" is none of the
\* statuses status_map lists
StripeStatuses ==
    {"active", "past_due", "canceled", "unpaid", "incomplete",
     "incomplete_expired", "trialing", "paused"}

\* lines 310-321: status_map.get(stripe_subscription.status, "active")
StatusMap(st) ==
    CASE st = "active" -> "active"
      [] st = "past_due" -> "past_due"
      [] st = "canceled" -> "canceled"
      [] st = "unpaid" -> "past_due"
      [] st = "incomplete" -> "active"
      [] st = "incomplete_expired" -> "expired"
      [] st = "trialing" -> "active"
      [] OTHER -> "active"

\* get_by_stripe_subscription, lines 40-45
GetByStripeSubscription(sid) ==
    {i \in 1..Len(subscriptions) : subscriptions[i].stripe_subscription_id = sid}

\* get_by_stripe_customer, lines 33-38
GetByStripeCustomer(cid) ==
    {i \in 1..Len(subscriptions) : subscriptions[i].stripe_customer_id = cid}

\* a pins row with its foreign key to subscriptions (Null without one)
LinkedPinRow(p, sub) == PinRow(p, "active", NoSub) @@ [subscription_id |-> sub]

\* select("*, subscriptions(status)"), rotation_service.py lines 55-56: the
\* status of the linked row is embedded in each pin at the time of the read
JoinSubscriptions(rows) ==
    [k \in 1..Len(rows) |->
        [rows[k] EXCEPT !.subscriptions =
            IF rows[k].subscription_id = Null THEN NoSub
            ELSE subscriptions[rows[k].subscription_id].status]]

\* the first trial has ended or not; the second subscriber is on an ended
\* trial too, or pays monthly and is past due. Pins 1 and 2 of the board
\* belong to the two subscribers, and pin 1 is booked as today's featured
\* pin; the third row is a pin of another board
InitSubscription ==
    /\ \E te \in {Now - 1, Now + 24},
          second \in {SubRow(2, 2, "trial", "active", Now - 2, 2),
                      SubRow(2, 2, "monthly", "past_due", Null, 2)} :
          subscriptions = <<SubRow(1, 1, "trial", "active", te, 1), second>>
    /\ pins = <<LinkedPinRow(1, 1), LinkedPinRow(2, 2),
                 LinkedPinRow(MaxPins + 1, Null)>>
    /\ featured_bookings =
          <<[pin_id |-> 1, board_id |-> Board, featured_date |-> Today,
             payment_status |-> "paid"]>>
    /\ impressions = {}
    /\ expire_job = NoJob
    /\ trial_calls = <<>>
    /\ stripe_customers = <<"live", "live">>
    /\ ShuffleIdle /\ RotIdle /\ BookingIdle
    /\ WeightIdle /\ ResetIdle /\ InvocationsIdle /\ ImpressionIdle

\* what a webhook handler leaves alone
WebhookFrame ==
    UNCHANGED <<expire_job, trial_calls, stripe_customers, shuffleVars,
                storeVars, rotVars, bookingVars, weightVars, resetVars,
                invocationVars, impressionVars>>

\* lines 320-334: update_data of handle_subscription_updated
UpdatedRow(row, st) ==
    [row EXCEPT
        !.status = StatusMap(st),
        !.plan = IF st = "active" /\ row.plan = "trial" THEN "monthly" ELSE @,
        !.trial_end = IF st = "active" /\ row.plan = "trial" THEN Null ELSE @]

\* webhooks.py lines 54-57 and subscription_service.py lines 300-340
HandleSubscriptionUpdated(sid, st) ==
    /\ LET hit == GetByStripeSubscription(sid)
       IN  IF hit = {} THEN UNCHANGED subscriptions
           ELSE subscriptions' =
                  [subscriptions EXCEPT ![Min(hit)] = UpdatedRow(@, st)]
    /\ WebhookFrame

\* webhooks.py lines 59-62 and subscription_service.py lines 342-356
HandleSubscriptionDeleted(sid) ==
    /\ LET hit == GetByStripeSubscription(sid)
       IN  IF hit = {} THEN UNCHANGED subscriptions
           ELSE subscriptions' =
                  [subscriptions EXCEPT ![Min(hit)] =
                      [@ EXCEPT !.status = "canceled", !.canceled_at = Now]]
    /\ WebhookFrame

\* webhooks.py lines 70-73 and subscription_service.py lines 358-372
HandlePaymentFailed(cid) ==
    /\ LET hit == GetByStripeCustomer(cid)
       IN  IF hit = {} THEN UNCHANGED subscriptions
           ELSE subscriptions' =
                  [subscriptions EXCEPT ![Min(hit)] =
                      [@ EXCEPT !.status = "past_due"]]
    /\ WebhookFrame

\* what a step of the job leaves alone
ExpireFrame ==
    UNCHANGED <<trial_calls, stripe_customers, shuffleVars, featured_bookings, impressions, rotVars, bookingVars,
                weightVars, resetVars, invocationVars, impressionVars>>

\* lines 385-391: the active trials whose trial_end is before now
EndedTrials ==
    LET Ended(r) == /\ r.plan = "trial"
                    /\ r.status = "active"
                    /\ r.trial_end # Null
                    /\ r.trial_end < Now
    IN  SelectSeq(subscriptions, Ended)

\* lines 382-393: a run of the job starts with its select
ExpireStart ==
    /\ expire_job.pc \in {"idle", "returned", "interrupted"}
    /\ expire_job' =
          [pc |-> IF EndedTrials = <<>> THEN "returned" ELSE "mark",
           data |-> EndedTrials, i |-> 1, expired_count |-> 0]
    /\ UNCHANGED <<subscriptions, pins>>
    /\ ExpireFrame

\* lines 395-398: the subscription is marked expired
ExpireMark ==
    /\ expire_job.pc = "mark"
    /\ subscriptions' =
          [subscriptions EXCEPT ![expire_job.data[expire_job.i].id].status = "expired"]
    /\ expire_job' = [expire_job EXCEPT !.pc = "pause"]
    /\ UNCHANGED pins
    /\ ExpireFrame

\* lines 400-409: its pins are paused, and the loop goes on or returns
ExpirePause ==
    /\ expire_job.pc = "pause"
    /\ pins' = [p \in DOMAIN pins |->
                  IF pins[p].subscription_id = expire_job.data[expire_job.i].id
                    THEN [pins[p] EXCEPT !.status = "paused"] ELSE pins[p]]
    /\ expire_job' =
          [expire_job EXCEPT
              !.expired_count = @ + 1,
              !.i = @ + 1,
              !.pc = IF expire_job.i < Len(expire_job.data)
                       THEN "mark" ELSE "returned"]
    /\ UNCHANGED subscriptions
    /\ ExpireFrame

\* an execute() of the loop raises, or the process is stopped: nothing in
\* expire_ended_trials catches or resumes
ExpireInterrupt ==
    /\ expire_job.pc \in {"mark", "pause"}
    /\ expire_job' = [expire_job EXCEPT !.pc = "interrupted"]
    /\ UNCHANGED <<subscriptions, pins>>
    /\ ExpireFrame

\* rotation_service.py lines 51-66 over the joined rows: one call for the
\* board, without a session
ReadPinsJoined ==
    /\ rot_pc = "idle"
    /\ board_id' = Board
    /\ session_id' = NoSession
    /\ limit' = 100
    /\ \/ /\ ReadRaises("pins")
          /\ UNCHANGED localVars
       \/ /\ pins_data' = JoinSubscriptions(ActivePins(Board))
          /\ IF ActivePins(Board) = <<>>
               THEN rot_pc' = "returned" /\ ranked' = <<>>
               ELSE rot_pc' = "featured" /\ UNCHANGED ranked
          /\ UNCHANGED <<featured_pin_id, seen_pin_ids, weighted_pins,
                         shuffled, featured_pin, insert_position, failed_read>>
    /\ UNCHANGED <<moreVars, shuffleVars, bookingVars, storeVars>>

NextSubscription ==
    \/ \E sid \in StripeIds, st \in StripeStatuses :
          HandleSubscriptionUpdated(sid, st)
    \/ \E sid \in StripeIds : HandleSubscriptionDeleted(sid)
    \/ \E cid \in StripeIds : HandlePaymentFailed(cid)
    \/ ExpireStart
    \/ ExpireMark
    \/ ExpirePause
    \/ ExpireInterrupt
    \/ ReadPinsJoined
    \/ ReadFeatured
    \/ ReadSeen
    \/ Rank

SpecSubscription == InitSubscription /\ [][NextSubscription]_vars

(***************************************************************************)
(* What the claims speak of, stated from the store and the call's outcome. *)
(***************************************************************************)
\* x occurs exactly once in s
OccursOnce(s, x) == Cardinality({i \in 1..Len(s) : s[i] = x}) = 1

\* t is a rearrangement of exactly the members of the set S
PermutationOf(t, S) ==
    /\ Len(t) = Cardinality(S)
    /\ \A x \in S : OccursOnce(t, x)
    /\ Range(t) \subseteq S

\* an active pin of board b that the subscription rule of the
\* specification lets through
EligibleIds(b) ==
    {p \in PinIds :
        /\ pins[p].board_id = b
        /\ pins[p].status = "active"
        /\ \/ pins[p].subscriptions = NoSub
           \/ pins[p].subscriptions \in {"active", "past_due"}}

\* the bookings of board b that are paid and dated today, by table position
HonoredAt(b) ==
    {i \in 1..Len(featured_bookings) :
        /\ featured_bookings[i].board_id = b
        /\ featured_bookings[i].featured_date = Today
        /\ featured_bookings[i].payment_status = "paid"}

\* the call went through the ranking (it did not return at line 66)
RankedReturn == rot_pc = "returned" /\ pins_data # <<>>

SmallerOf(a, b) == IF a < b THEN a ELSE b

\* the loop of SpecShuffle returns only lists that ShuffleResults, which
\* get_rotated_pins draws from, holds
LoopWithinShuffleResults ==
    sh_pc = "done" => result \in ShuffleResults(weighted_items)

(***************************************************************************)
(* C1: whatever the weights (>= 0) and the draws, the list                 *)
(* _weighted_shuffle returns is a permutation of exactly the input pins:   *)
(* same length, each input pin once, none added.                           *)
(***************************************************************************)
C1_ShuffleIsPermutation ==
    sh_pc = "done" => PermutationOf(result, Range(ItemsOf(weighted_items)))

\* a three-pin input with positive weights returned in another order
C1_Witness ==
    /\ sh_pc = "done"
    /\ Len(weighted_items) = 3
    /\ \A i \in 1..3 : weighted_items[i][2] > 0
    /\ result = <<3, 1, 2>>

(***************************************************************************)
(* C10: when the sum of the remaining weights is <= 0 at some iteration,   *)
(* the shuffle appends all remaining items in some order and stops; the    *)
(* list returned then holds every input item exactly once and is not       *)
(* empty, and the degenerate iteration can always be taken (no failure).   *)
(***************************************************************************)
DegenerateStep == sh_pc = "loop" /\ items # <<>> /\ TotalWeight(items) <= 0

C10_DegenerateFallback ==
    /\ [][DegenerateStep =>
            /\ sh_pc' = "done"
            /\ \E r \in Orderings(ItemsOf(items)) : result' = result \o r
            /\ PermutationOf(result', Range(ItemsOf(weighted_items)))
            /\ result' # <<>>]_vars
    /\ [](DegenerateStep => ENABLED ShuffleFallback)

\* the first pin was drawn by weight, the two weightless ones by fallback
C10_Witness ==
    /\ sh_pc = "done"
    /\ Len(weighted_items) = 3
    /\ weighted_items[1][2] > 0
    /\ weighted_items[2][2] = 0
    /\ weighted_items[3][2] = 0
    /\ result = <<1, 3, 2>>

(***************************************************************************)
(* C2: whenever a paid booking of today exists for the board, and its pin  *)
(* is an eligible active pin of the board, the list returned for any       *)
(* limit >= 1 holds that pin exactly once, at an index of {0,1,2,3} or at  *)
(* the end of the list.                                                    *)
(***************************************************************************)
C2_FeaturedPlacedForEveryLimit ==
    (/\ rot_pc = "returned"
     /\ limit >= 1
     /\ HonoredAt(board_id) # {}
     /\ featured_bookings[Min(HonoredAt(board_id))].pin_id \in EligibleIds(board_id))
    => LET fid == featured_bookings[Min(HonoredAt(board_id))].pin_id
       IN  /\ OccursOnce(ranked, fid)
           /\ \E i \in 1..Len(ranked) :
                 /\ ranked[i] = fid
                 /\ (i - 1 \in FEATURED_POSITIONS \/ i = Len(ranked))

(***************************************************************************)
(* C4: for a limit in 1..100 the returned list has min(limit, number of    *)
(* eligible pins, the featured one included) entries.                      *)
(***************************************************************************)
C4_LengthIsMinOfLimitAndEligible ==
    (rot_pc = "returned" /\ limit \in 1..100)
    => Len(ranked) = SmallerOf(limit, Cardinality(EligibleIds(board_id)))

\* limit 2 cuts a ranking of three eligible pins, one of them featured
C4_Witness ==
    /\ RankedReturn
    /\ limit = 2
    /\ Cardinality(EligibleIds(board_id)) = 3
    /\ featured_pin # NoPin
    /\ Len(ranked) = 2

(***************************************************************************)
(* C5: a limit outside 1..100 is clamped into 1..100 before truncation:    *)
(* the returned list has min(clamped limit, eligible pins) entries, so at  *)
(* least one whenever a pin is eligible.                                   *)
(***************************************************************************)
ClampedLimit == IF limit < 1 THEN 1 ELSE IF limit > 100 THEN 100 ELSE limit

C5_LimitIsClamped ==
    rot_pc = "returned"
    => Len(ranked) = SmallerOf(ClampedLimit, Cardinality(EligibleIds(board_id)))

(***************************************************************************)
(* C6: a failed collaborator read ends the call in a failure: nothing is   *)
(* returned, and a returned ranking was computed from all the reads the    *)
(* call makes (the booking of today and, with a session, the seen pins).   *)
(***************************************************************************)
C6_ReadFailurePropagates ==
    /\ failed_read # "none" => rot_pc = "raised" /\ ranked = <<>>
    /\ rot_pc = "returned" => failed_read = "none"
    /\ RankedReturn =>
         /\ featured_pin_id =
              IF HonoredAt(board_id) = {} THEN NoPin
              ELSE featured_bookings[Min(HonoredAt(board_id))].pin_id
         /\ session_id # NoSession =>
              seen_pin_ids =
                {r.pin_id : r \in {x \in impressions :
                    /\ x.session_id = session_id
                    /\ x.board_id = board_id
                    /\ x.created_at >= Today * 24}}

\* the third read fails after the first two succeeded
C6_Witness ==
    /\ failed_read = "impressions"
    /\ rot_pc = "raised"
    /\ pins_data # <<>>
    /\ featured_pin_id # NoPin

HasHonoredBooking(p, b) ==
    \E i \in HonoredAt(b) : featured_bookings[i].pin_id = p

C8_OnlyPaidTodayHonored ==
    /\ featured_pin_id # NoPin => HasHonoredBooking(featured_pin_id, board_id)
    /\ RankedReturn =>
         \A p \in EligibleIds(board_id) :
            ~HasHonoredBooking(p, board_id) =>
               /\ featured_pin # p
               /\ OccursOnce(shuffled, p)
               /\ \E i \in 1..Len(weighted_pins) :
                     /\ weighted_pins[i][1] = p
                     /\ weighted_pins[i][2] > 0

\* pin 1 is booked for today but unpaid, and for tomorrow paid
C8_Witness ==
    /\ RankedReturn
    /\ Len(featured_bookings) = 2
    /\ featured_bookings[1] = [pin_id |-> 1, board_id |-> Board,
                               featured_date |-> Today, payment_status |-> "pending"]
    /\ featured_bookings[2] = [pin_id |-> 1, board_id |-> Board,
                               featured_date |-> Today + 1, payment_status |-> "paid"]
    /\ 1 \in EligibleIds(board_id)
    /\ featured_pin = NoPin
    /\ 1 \in Range(shuffled)

(***************************************************************************)
(* C9: at most one featured pin is injected per call: without a paid       *)
(* booking of today the returned list is the shuffled candidate list       *)
(* (cut to the limit); with several, only the pin of the first matching    *)
(* booking can take the reserved slot and the other booked pins stay       *)
(* ordinary candidates.                                                    *)
(***************************************************************************)
C9_AtMostOneInjected ==
    RankedReturn =>
      /\ HonoredAt(board_id) = {} =>
            /\ featured_pin = NoPin
            /\ ranked = SubSeq(shuffled, 1, Len(ranked))
            /\ limit >= Len(shuffled) => ranked = shuffled
      /\ HonoredAt(board_id) # {} =>
            LET first == featured_bookings[Min(HonoredAt(board_id))].pin_id
            IN  /\ featured_pin \in {NoPin, first}
                /\ first \notin Range(shuffled)
                /\ \A i \in HonoredAt(board_id) :
                      LET p == featured_bookings[i].pin_id
                      IN  (p # first /\ p \in EligibleIds(board_id))
                            => OccursOnce(shuffled, p)
      /\ Cardinality({i \in 1..Len(ranked) : ranked[i] \notin Range(shuffled)}) <= 1
      /\ \A i \in 1..Len(ranked) :
            ranked[i] \notin Range(shuffled) => ranked[i] = featured_pin

\* two paid bookings of today: pin 2's comes first and takes the slot, pin 1
\* stays a candidate
C9_Witness ==
    /\ RankedReturn
    /\ Len(featured_bookings) = 2
    /\ \A i \in 1..2 : featured_bookings[i].payment_status = "paid"
    /\ \A i \in 1..2 : featured_bookings[i].featured_date = Today
    /\ featured_bookings[1].pin_id = 2
    /\ featured_bookings[2].pin_id = 1
    /\ featured_pin = 2
    /\ 1 \in Range(shuffled)
    /\ ranked = <<1, 2, 3>>

(***************************************************************************)
(* C3: at most one paid featured booking exists per (board, date) in       *)
(* every state the booking path can reach.                                 *)
(***************************************************************************)
C3_AtMostOnePaidPerBoardDate ==
    \A i, j \in 1..Len(featured_bookings) :
        (/\ i # j
         /\ featured_bookings[i].payment_status = "paid"
         /\ featured_bookings[j].payment_status = "paid"
         /\ featured_bookings[i].board_id = featured_bookings[j].board_id)
        => featured_bookings[i].featured_date # featured_bookings[j].featured_date

\* the instant a stored timestamp names, when it names one
Instant(v) == v.t

IsTimestamp(v) == v.kind \in {"time", "zulu", "naive"}

\* 72 x newBoost of the specification
NewFactor(pin) ==
    IF IsTimestamp(pin.created_at) /\ Now - Instant(pin.created_at) < 72
      THEN 144 - (Now - Instant(pin.created_at))
      ELSE 72

\* 10 x updateBoost of the specification: fewer than 7 whole days old
UpdateFactor(pin) ==
    IF IsTimestamp(pin.content_updated_at)
         /\ Now - Instant(pin.content_updated_at) < 7 * 24
      THEN 13 ELSE 10

\* 2 x seenPenalty of the specification
SeenFactor == IF cw_was_seen THEN 1 ELSE 2

CreatedNowUnseen(n) ==
    /\ cw_pin.impressions_24h = n
    /\ cw_pin.created_at = Time(Now)
    /\ cw_pin.content_updated_at = Missing
    /\ ~cw_was_seen

YearOldUnseen(n) ==
    /\ cw_pin.impressions_24h = n
    /\ cw_pin.created_at = Time(Now - 24 * 365)
    /\ cw_pin.content_updated_at \in {Missing, Time(Now - 24 * 365)}
    /\ ~cw_was_seen

\* C11: for every stored value of created_at and content_updated_at --
\* missing, empty, unparsable, or a parseable time with or without an
\* offset -- _calculate_weight returns and raises nothing, and a timestamp
\* that is missing or unparsable contributes the factor 1: the weight is
\* the weight of the same pin without that timestamp
C11_WeightNeverRaises ==
    /\ cw_pc # "raised"
    /\ cw_pc = "returned" =>
          /\ cw_pin.created_at.kind \in {"missing", "empty", "unparsable"} =>
                cw_weight * (cw_pin.impressions_24h + 1)
                  = ImpLcm * NEW_CARD_DECAY_HOURS * UpdateFactor(cw_pin) * SeenFactor
          /\ cw_pin.content_updated_at.kind \in {"missing", "empty", "unparsable"} =>
                cw_weight * (cw_pin.impressions_24h + 1)
                  = ImpLcm * NewFactor(cw_pin) * 10 * SeenFactor

\* C20: the weight returned is base x newBoost x updateBoost x seenPenalty,
\* base = 1/(impressions_24h + 1), newBoost = 2 - h/72 for h < 72 hours
\* since created_at and 1 otherwise, updateBoost = 1.3 for a
\* content_updated_at fewer than 7 days old and 1 otherwise, seenPenalty =
\* 0.5 when seen; a pin created now with 0 impressions weighs 2.0, year-old
\* pins with 9 and 99 impressions weigh 0.1 and 0.01
C20_WeightIsProduct ==
    cw_pc = "returned" =>
      /\ cw_weight * (cw_pin.impressions_24h + 1)
            = ImpLcm * NewFactor(cw_pin) * UpdateFactor(cw_pin) * SeenFactor
      /\ CreatedNowUnseen(0) => cw_weight = 2 * WeightUnit
      /\ YearOldUnseen(9) => cw_weight * 10 = WeightUnit
      /\ YearOldUnseen(99) => cw_weight * 100 = WeightUnit

\* the weight of a pin updated six days and 23 hours ago, seen, created
\* 71 hours ago, was returned
C20_Witness ==
    /\ cw_pc = "returned"
    /\ cw_was_seen
    /\ cw_pin.created_at = Time(Now - NEW_CARD_DECAY_HOURS + 1)
    /\ cw_pin.content_updated_at = Time(Now - 24 * UPDATE_BOOST_DAYS + 1)
    /\ cw_pin.impressions_24h = 9

\* the row pin id had before any run
RowBefore(id) == pins_before[CHOOSE k \in 1..Len(pins_before) : pins_before[k].id = id]

\* the row's last reset was more than 24 hours before the run's time
OverdueAt(row, now) == now - row.last_impression_reset > 24

\* the row after a reset at the given time
ResetAt(row, now) == [row EXCEPT !.impressions_24h = 0, !.last_impression_reset = now]

OtherRun(r) == 3 - r

NoPinDeleted == Len(pins) = Len(pins_before)

\* C12: a complete run sets impressions_24h to 0 and last_impression_reset
\* to the run's time for every pin whose last reset was more than 24 hours
\* before the run started, and leaves every other pin, and every other
\* field, unchanged (the run alone on the table)
C12_CompleteRunResetsOverdue ==
    \A r \in ResetRuns :
        /\ reset_runs[r].pc = "returned"
        /\ reset_runs[OtherRun(r)].pc = "idle"
        /\ NoPinDeleted
        => \A k \in 1..Len(pins) :
              pins[k] = IF OverdueAt(pins_before[k], reset_runs[r].now)
                          THEN ResetAt(pins_before[k], reset_runs[r].now)
                          ELSE pins_before[k]

\* a run alone reset one pin and left another, not overdue, as it was
C12_Witness ==
    /\ reset_runs[1].pc = "returned"
    /\ reset_runs[1].result = 1
    /\ reset_runs[2].pc = "idle"
    /\ NoPinDeleted
    /\ \E k \in 1..Len(pins) : pins[k] = pins_before[k]

\* C13: a run started after an earlier run ended enumerates no pin the
\* earlier run reset; started at the time of a completed run it resets
\* nothing and returns 0; and once it completes after an interrupted run,
\* every pin that was overdue for the earlier run has been reset by exactly
\* one of the two
C13_RerunContinues ==
    \A r, q \in ResetRuns :
        r \in reset_runs[q].after =>
          /\ Range(reset_runs[q].data) \cap reset_log[r] = {}
          /\ ( /\ reset_runs[r].pc = "returned"
               /\ reset_runs[q].now = reset_runs[r].now
               /\ reset_runs[q].failed # "select" )
             => /\ reset_runs[q].pc = "returned"
                /\ reset_runs[q].result = 0
                /\ reset_log[q] = {}
          /\ reset_runs[q].pc = "returned" =>
                \A k \in 1..Len(pins) :
                    OverdueAt(RowBefore(pins[k].id), reset_runs[r].now) =>
                      /\ pins[k].impressions_24h = 0
                      /\ (pins[k].id \in reset_log[r]) # (pins[k].id \in reset_log[q])

\* the first run was interrupted after it reset a pin, and the second run,
\* started afterwards, reset the rest and returned
C13_Witness ==
    /\ reset_runs[1].pc = "raised"
    /\ reset_runs[1].failed = "update"
    /\ reset_log[1] # {}
    /\ 1 \in reset_runs[2].after
    /\ reset_runs[2].pc = "returned"
    /\ reset_log[2] # {}

\* C14: a failure of the update of one pin does not abort the batch: the
\* run does not end by raising, and when it returns it has attempted every
\* enumerated pin
C14_UpdateFailureIsIsolated ==
    \A r \in ResetRuns :
        reset_runs[r].failed = "update" =>
          /\ reset_runs[r].pc # "raised"
          /\ reset_runs[r].pc = "returned" =>
                reset_runs[r].i > Len(reset_runs[r].data)

\* C15: the value returned is the number of pins the run actually reset,
\* not the number it enumerated
C15_ReturnsCountOfResetPins ==
    \A r \in ResetRuns :
        reset_runs[r].pc = "returned" =>
          reset_runs[r].result = Cardinality(reset_log[r])

\* C16: under any interleaving of two runs impressions_24h is never
\* negative, a pin overdue for no run that started is unmodified, and after
\* both completed every pin that was overdue for one of them has
\* impressions_24h = 0 and the time of one of the runs as its last reset
C16_InterleavedRunsOnlyDoubleReset ==
    \A k \in 1..Len(pins) :
        LET before == RowBefore(pins[k].id)
            started == {r \in ResetRuns : reset_runs[r].pc # "idle"}
        IN  /\ pins[k].impressions_24h >= 0
            /\ (\A r \in started : ~OverdueAt(before, reset_runs[r].now))
                  => pins[k] = before
            /\ ( /\ \A r \in ResetRuns : reset_runs[r].pc = "returned"
                 /\ \E r \in ResetRuns : OverdueAt(before, reset_runs[r].now) )
                  => \E r \in ResetRuns : pins[k] = ResetAt(before, reset_runs[r].now)

\* two runs that overlapped both completed, one pin was reset by both and
\* another pin was not overdue
C16_Witness ==
    /\ \A r \in ResetRuns : reset_runs[r].pc = "returned"
    /\ \A r \in ResetRuns : reset_runs[r].after = {}
    /\ reset_log[1] \cap reset_log[2] # {}
    /\ reset_runs[1].now # reset_runs[2].now
    /\ \E k \in 1..Len(pins) : pins[k] = RowBefore(pins[k].id)

\* C19: record_impression makes exactly one append attempt per call and
\* is fire-and-forget: a failed append is logged, is not retried, and
\* raises nothing to the caller
C19_RecordImpressionFireAndForget ==
    imp_call = "record_impression" =>
      /\ imp_attempts = 1
      /\ imp_pc # "raised"
      /\ imp_pc = "raised" => imp_logged

\* how far an invocation has come
PcRank(pc) ==
    CASE pc = "idle" -> 0
      [] pc = "featured" -> 1
      [] pc = "seen" -> 2
      [] OTHER -> 3

\* the ids of the rows of a snapshot
SnapshotIds(data) == {data[k].id : k \in 1..Len(data)}

NoDuplicates(list) == \A a, b \in 1..Len(list) : a # b => list[a] # list[b]

\* C17: get_rotated_pins is read-only: whatever its input and outcome, a
\* step of an invocation inserts, updates and deletes nothing in pins,
\* featured_bookings or impressions
C17_RotationIsReadOnly ==
    [][invocations' # invocations => UNCHANGED storeVars]_vars

\* an invocation with a session returned two pins and the store holds
\* what it held before
C17_Witness ==
    /\ pins = InvocationPins
    /\ impressions = {}
    /\ \A k \in 1..Len(featured_bookings) :
          featured_bookings[k].payment_status = "pending"
    /\ \E c \in InvocationIds :
          /\ invocations[c].pc = "returned"
          /\ invocations[c].session_id # NoSession
          /\ Len(invocations[c].ranked) = 2

\* the lists the last step of invocation c can return from the store as
\* it is now
ListsNow(c) ==
    RankedLists(invocations[c].pins_data, invocations[c].featured_pin_id,
                IF invocations[c].session_id # NoSession
                  THEN SeenToday(invocations[c].session_id, invocations[c].board_id)
                  ELSE {},
                invocations[c].limit)

\* C18: concurrent invocations, interleaved with each other and with store
\* writes between their reads, never block or affect one another: an
\* unfinished invocation can always take its next step (its first two
\* reads are enabled, and its last read has a list to return), a step of
\* one invocation moves it forward and leaves the other as it was, and a
\* returned list has no duplicate and only pins of the snapshot that the
\* invocation fetched itself
C18_InvocationsIndependent ==
    /\ [](\A c \in InvocationIds :
            /\ invocations[c].pc = "idle" => ENABLED InvocationReadPins(c)
            /\ invocations[c].pc = "featured" => ENABLED InvocationReadFeatured(c)
            /\ invocations[c].pc = "seen" => ListsNow(c) # {}
            /\ invocations[c].pc = "returned" =>
                  /\ NoDuplicates(invocations[c].ranked)
                  /\ Range(invocations[c].ranked)
                        \subseteq SnapshotIds(invocations[c].pins_data))
    /\ [][\A c \in InvocationIds :
            invocations'[c] # invocations[c] =>
              /\ PcRank(invocations'[c].pc) > PcRank(invocations[c].pc)
              /\ \A d \in InvocationIds \ {c} : invocations'[d] = invocations[d]]_vars

\* two invocations for the same board returned from different snapshots,
\* the first with a featured pin that was deleted after its read
C18_Witness ==
    /\ \A c \in InvocationIds :
          /\ invocations[c].pc = "returned"
          /\ invocations[c].board_id = Board
    /\ invocations[1].pins_data # invocations[2].pins_data
    /\ invocations[1].featured_pin_id # NoPin
    /\ invocations[1].featured_pin_id \in Range(invocations[1].ranked)
    /\ ~\E k \in 1..Len(pins) : pins[k].id = invocations[1].featured_pin_id

\* C21: for a pin with a non-negative impressions_24h the returned weight
\* is strictly positive, the base factor 1/(impressions_24h + 1) lies in
\* (0, 1], and the same pin with more impressions, everything else fixed,
\* weighs strictly less
C21_WeightPositiveAndDecreasing ==
    cw_pc = "returned" =>
      /\ cw_weight > 0
      /\ BaseWeight(cw_pin) > 0
      /\ BaseWeight(cw_pin) <= ImpLcm
      /\ \A m \in WeightImpressions :
            m > cw_pin.impressions_24h =>
              CalculateWeight([cw_pin EXCEPT !.impressions_24h = m],
                              Now, cw_was_seen) < cw_weight

\* the weight of a seen pin with one impression, created 36 hours ago,
\* was returned: counts below and above it are in WeightImpressions
C21_Witness ==
    /\ cw_pc = "returned"
    /\ cw_pin.impressions_24h = 1
    /\ cw_pin.created_at = Time(Now - 36)
    /\ cw_was_seen
    /\ cw_weight > 0

\* the age in hours of a pin whose created_at names an instant
AgeHours == Now - Instant(cw_pin.created_at)

\* the returned weight is k/72 times the base, update and seen factors
NewBoostIs(k) ==
    cw_weight * (cw_pin.impressions_24h + 1)
        = ImpLcm * k * UpdateFactor(cw_pin) * SeenFactor

\* C22: the new-card boost is 2.0 for a pin created exactly at now, 1.5 for
\* a pin created 36 hours before now, exactly 1.0 for a pin 72 or more
\* hours old, and decays linearly (2 - h/72) for the ages h in between
C22_NewBoostDecaysLinearly ==
    (cw_pc = "returned" /\ IsTimestamp(cw_pin.created_at)) =>
      /\ AgeHours = 0 => NewBoostIs(2 * NEW_CARD_DECAY_HOURS)
      /\ AgeHours = 36 => NewBoostIs(108)
      /\ AgeHours >= NEW_CARD_DECAY_HOURS => NewBoostIs(NEW_CARD_DECAY_HOURS)
      /\ (AgeHours >= 0 /\ AgeHours < NEW_CARD_DECAY_HOURS) =>
            NewBoostIs(2 * NEW_CARD_DECAY_HOURS - AgeHours)

\* the weight of a pin created 36 hours ago was returned with boost 1.5
C22_Witness ==
    /\ cw_pc = "returned"
    /\ cw_pin.created_at = Time(Now - 36)
    /\ NewBoostIs(108)

\* C26: for every created_at and now, a created_at later than now
\* included, the new-card boost applied to the returned weight lies in
\* [1.0, 2.0]
C26_NewBoostWithinRange ==
    cw_pc = "returned" =>
      /\ cw_weight * (cw_pin.impressions_24h + 1)
            >= ImpLcm * NEW_CARD_DECAY_HOURS * UpdateFactor(cw_pin) * SeenFactor
      /\ cw_weight * (cw_pin.impressions_24h + 1)
            <= ImpLcm * 2 * NEW_CARD_DECAY_HOURS * UpdateFactor(cw_pin) * SeenFactor

\* the session of the call has an impression of pin id on the board of the
\* call since midnight
SeenBySession(id) ==
    /\ session_id # NoSession
    /\ \E x \in impressions :
          /\ x.pin_id = id
          /\ x.session_id = session_id
          /\ x.board_id = board_id
          /\ x.created_at >= Today * 24

\* the row of pin id among the rows the call read
RowRead(id) == pins_data[CHOOSE k \in 1..Len(pins_data) : pins_data[k].id = id]

\* C23: a seen pin weighs exactly 0.5 times what the same pin weighs
\* unseen; the penalty is applied only to the pins of which the calling
\* session has an impression on the same board today, every other pin has
\* its unseen weight, and without a session_id no pin is penalised
C23_SeenPenaltyHalves ==
    RankedReturn =>
      \A k \in 1..Len(weighted_pins) :
         LET id == weighted_pins[k][1]
             unseen == CalculateWeight(RowRead(id), Now, FALSE)
         IN  /\ SeenBySession(id) => 2 * weighted_pins[k][2] = unseen
             /\ ~SeenBySession(id) => weighted_pins[k][2] = unseen

\* session s1 ranked three pins: pin 1, which it saw today, at half its
\* weight; pin 2, which it saw yesterday, and pin 3, which another session
\* saw and which it saw on another board, at their full weights
C23_Witness ==
    /\ RankedReturn
    /\ session_id = "s1"
    /\ Len(weighted_pins) = 3
    /\ \E k \in 1..3 : /\ weighted_pins[k][1] = 1
                       /\ 2 * weighted_pins[k][2]
                            = CalculateWeight(RowRead(1), Now, FALSE)
    /\ \E k \in 1..3 : /\ weighted_pins[k][1] = 3
                       /\ weighted_pins[k][2]
                            = CalculateWeight(RowRead(3), Now, FALSE)

\* an iteration of the loop that draws by weight is about to run
WeightedStep == sh_pc = "loop" /\ items # <<>> /\ TotalWeight(items) > 0

\* the weights are whole numbers, so the scan's hit is the same for every
\* real pick of the interval (k - 1, k]: the unit intervals of [0, total]
\* whose picks select item i; each has probability 1/total
UnitsSelecting(i) ==
    {k \in 1..TotalWeight(items) : SelectIndex(items, k) = i}

\* C24: at each step an item that remains is selected with probability
\* weight / (sum of the remaining weights) -- of the total equally likely
\* unit intervals of the pick, exactly weight select it -- so that of two
\* pins the one with the larger weight is the likelier first of the list
C24_SelectionProportionalToWeight ==
    WeightedStep =>
      /\ \A i \in 1..Len(items) :
            Cardinality(UnitsSelecting(i)) = items[i][2]
      /\ \A i, j \in 1..Len(items) :
            items[i][2] > items[j][2] =>
              Cardinality(UnitsSelecting(i)) > Cardinality(UnitsSelecting(j))

\* the first step of a shuffle of three pins of weights 1, 2 and 0
C24_Witness ==
    /\ WeightedStep
    /\ result = <<>>
    /\ items = <<<<1, 1>>, <<2, 2>>, <<3, 0>>>>
    /\ Cardinality(UnitsSelecting(2)) = 2

\* i is the first index in scan order whose cumulative weight reaches pick
FirstReaching(i, pick) ==
    /\ i \in 1..Len(items)
    /\ Cumulative(items, i) >= pick
    /\ \A j \in 1..(i - 1) : Cumulative(items, j) < pick

\* C25: in every iteration with a positive sum of the remaining weights,
\* every pick of [0, sum] selects exactly one item, the first in scan order
\* whose cumulative weight is >= pick; the iteration appends it to the
\* result and removes it from the remaining items, which shrink by one; so
\* the loop ends after at most N iterations for N input items
C25_EachIterationSelectsOne ==
    /\ [](WeightedStep =>
            \A pick \in 0..TotalWeight(items) :
               FirstReaching(SelectIndex(items, pick), pick))
    /\ [][WeightedStep =>
            /\ \E i \in 1..Len(items) :
                  /\ result' = Append(result, items[i][1])
                  /\ items' = PopAt(items, i)
            /\ Len(items') = Len(items) - 1]_vars
    /\ [](sh_pc = "loop" =>
            /\ Len(result) + Len(items) = Len(weighted_items)
            /\ Len(result) <= Len(weighted_items))
    /\ <>(sh_pc = "done")

\* three weighted iterations emptied a list of three pins
C25_Witness ==
    /\ sh_pc = "loop"
    /\ items = <<>>
    /\ Len(result) = 3
    /\ \A i \in 1..3 : weighted_items[i][2] > 0

\* C27: a booking's payment_status becomes "paid" only in the step in which
\* Stripe's payment_intent.succeeded arrives for that booking's own payment
\* intent; no other step a user can cause (the confirm endpoint on any
\* booking id included) marks a booking paid
C27_PaidOnlyBySucceededIntent ==
    [][\A i \in 1..Len(featured_bookings), j \in 1..Len(featured_bookings') :
          (/\ featured_bookings'[j].id = featured_bookings[i].id
           /\ featured_bookings[i].payment_status # "paid"
           /\ featured_bookings'[j].payment_status = "paid")
          => LET pi == featured_bookings[i].stripe_payment_intent_id
             IN  /\ payment_intents[pi] = "open"
                 /\ payment_intents'[pi] = "succeeded"]_vars

\* C30: when start_trial fails after it created the Stripe customer, that
\* customer has been deleted and no subscriptions row exists for the user;
\* a user who already has a subscription gets the error before any customer
\* is created
C30_FailedTrialLeavesNothing ==
    \A u \in TrialUsers :
       trial_calls[u].pc = "raised" =>
         /\ GetByUserId(u) # {} =>
               /\ trial_calls[u].error = "exists"
               /\ trial_calls[u].customer = Null
         /\ trial_calls[u].customer # Null =>
               /\ stripe_customers[trial_calls[u].customer] = "deleted"
               /\ GetByUserId(u) = {}

\* C29: once handle_subscription_deleted has set a subscription's status to
\* "canceled" (and stamped canceled_at), no step taken afterwards -- a
\* customer.subscription.updated or an invoice.payment_failed webhook
\* included -- changes that status to "active" or "past_due"
C29_CanceledStaysCanceled ==
    [][\A i \in 1..Len(subscriptions) :
          (/\ subscriptions[i].status = "canceled"
           /\ subscriptions[i].canceled_at # Null)
          => subscriptions'[i].status \notin {"active", "past_due"}]_vars

\* the status of the subscription a pins row is linked to, NoSub without one
LinkedStatus(row) ==
    IF row.subscription_id = Null THEN NoSub
    ELSE subscriptions[row.subscription_id].status

\* C28: get_rotated_pins never returns a pin linked to a subscription whose
\* status is "expired" or "canceled", whatever state of the store the call
\* reads: after webhooks, after a run of expire_ended_trials, and after a run
\* interrupted between marking a subscription expired and pausing its pins.
\* The status is the one the call's read of the pins found in the store.
C28_NoLapsedPinReturned ==
    /\ [](RankedReturn =>
            \A k \in 1..Len(ranked) :
               RowRead(ranked[k]).subscriptions \notin {"expired", "canceled"})
    /\ [][(rot_pc = "idle" /\ rot_pc' \in {"featured", "returned"}) =>
            \A k \in 1..Len(pins_data') :
               /\ pins_data'[k].subscriptions = LinkedStatus(pins_data'[k])
               /\ pins_data'[k] \in
                     {[pins[p] EXCEPT !.subscriptions = LinkedStatus(pins[p])] :
                        p \in DOMAIN pins}]_vars

\* the job was interrupted after it marked subscription 1 expired: pin 1,
\* still active and booked as today's featured pin, was read and left out
C28_Witness ==
    /\ rot_pc = "returned"
    /\ expire_job.pc = "interrupted"
    /\ \E k \in 1..Len(pins_data) :
          /\ pins_data[k].id = 1
          /\ pins_data[k].subscriptions = "expired"
    /\ featured_pin_id = 1
    /\ ranked # <<>>
    /\ 1 \notin Range(ranked)

=============================================================================
